---- MODULE Spec2Model ----
(***************************************************************************)
(* JSON file store of the personal assistant (storage/repo.py):            *)
(* Repository (save / load / exists / clear over one file path) and the    *)
(* ContactRepository adapter on top of it.                                 *)
(*                                                                         *)
(* The file on disk is a sequence of JSON lexemes (white space between     *)
(* lexemes is elided: json.dump's indentation only adds white space and    *)
(* json.load skips it).  json.dump is modelled by Dumps, which emits the   *)
(* lexemes one chunk at a time and stops at the first value it cannot      *)
(* encode; json.load is modelled by Loads, a recursive-descent parser.     *)
(***************************************************************************)
EXTENDS Integers, Sequences, FiniteSets, TLC

\* ---------------------------------------------------------------- bounds
\* longest sequence handed to save / save_contacts
MaxItems == 2
\* successful saves are counted up to this many
MaxSaves == 2

\* ------------------------------------------------------- Python values
\* A Python value: t is its type, s / n its text or number, items the
\* elements of a list or the values of a dict, keys the keys of a dict.
Val(t, s, n, keys, items) ==
    [t |-> t, s |-> s, n |-> n, keys |-> keys, items |-> items]

PyNone      == Val("none", "", 0, <<>>, <<>>)
PyInt(n)    == Val("int", "", n, <<>>, <<>>)
PyStr(s)    == Val("str", s, 0, <<>>, <<>>)
PyList(xs)  == Val("list", "", 0, <<>>, xs)
PyDict(ks, vs) == Val("dict", "", 0, ks, vs)
\* an instance of a class json cannot encode (object())
PyObject    == Val("object", "", 0, <<>>, <<>>)

\* ------------------------------------------------------------- lexemes
Tok(k, s, n) == [k |-> k, s |-> s, n |-> n]
P(s)      == Tok("punct", s, 0)
TStr(s)   == Tok("str", s, 0)
TNum(n)   == Tok("num", "", n)
TLit(s)   == Tok("lit", s, 0)
\* a run of characters that is no JSON lexeme
TWord(s)  == Tok("word", s, 0)

\* ----------------------------------------------------------- json.dump
\* Result of encoding: the chunks written so far, and whether the encoder
\* ran to completion (ok) or raised TypeError after writing them.
RECURSIVE Dumps(_)
RECURSIVE DumpList(_, _)
RECURSIVE DumpDict(_, _, _)

\* chunks of the elements xs[i..], each but the first preceded by ","
DumpList(xs, i) ==
    IF i > Len(xs) THEN [ok |-> TRUE, toks |-> <<>>]
    ELSE LET sep  == IF i = 1 THEN <<>> ELSE <<P(",")>>
             head == Dumps(xs[i])
         IN  IF ~head.ok
             THEN [ok |-> FALSE, toks |-> sep \o head.toks]
             ELSE LET rest == DumpList(xs, i + 1)
                  IN  [ok |-> rest.ok, toks |-> sep \o head.toks \o rest.toks]

\* chunks of the members ks[i..] : vs[i..]
DumpDict(ks, vs, i) ==
    IF i > Len(ks) THEN [ok |-> TRUE, toks |-> <<>>]
    ELSE LET sep  == IF i = 1 THEN <<>> ELSE <<P(",")>>
             key  == <<TStr(ks[i]), P(":")>>
             head == Dumps(vs[i])
         IN  IF ~head.ok
             THEN [ok |-> FALSE, toks |-> sep \o key \o head.toks]
             ELSE LET rest == DumpDict(ks, vs, i + 1)
                  IN  [ok |-> rest.ok,
                       toks |-> sep \o key \o head.toks \o rest.toks]

Dumps(v) ==
    CASE v.t = "none" -> [ok |-> TRUE, toks |-> <<TLit("null")>>]
      [] v.t = "bool" -> [ok |-> TRUE,
                          toks |-> <<TLit(IF v.n = 1 THEN "true" ELSE "false")>>]
      [] v.t = "int"  -> [ok |-> TRUE, toks |-> <<TNum(v.n)>>]
      [] v.t = "str"  -> [ok |-> TRUE, toks |-> <<TStr(v.s)>>]
      [] v.t = "list" ->
            LET body == DumpList(v.items, 1)
            IN  IF body.ok
                THEN [ok |-> TRUE, toks |-> <<P("[")>> \o body.toks \o <<P("]")>>]
                ELSE [ok |-> FALSE, toks |-> <<P("[")>> \o body.toks]
      [] v.t = "dict" ->
            LET body == DumpDict(v.keys, v.items, 1)
            IN  IF body.ok
                THEN [ok |-> TRUE, toks |-> <<P("{")>> \o body.toks \o <<P("}")>>]
                ELSE [ok |-> FALSE, toks |-> <<P("{")>> \o body.toks]
      [] OTHER        -> [ok |-> FALSE, toks |-> <<>>]

\* ----------------------------------------------------------- json.load
\* index of key k in ks, 0 when absent
RECURSIVE KeyIndex(_, _, _)
KeyIndex(ks, k, i) ==
    IF i > Len(ks) THEN 0
    ELSE IF ks[i] = k THEN i ELSE KeyIndex(ks, k, i + 1)

\* d[k] = v on a dict value: a repeated key keeps its place, takes the new value
DictPut(d, k, v) ==
    LET i == KeyIndex(d.keys, k, 1)
    IN  IF i = 0
        THEN PyDict(Append(d.keys, k), Append(d.items, v))
        ELSE PyDict(d.keys, [d.items EXCEPT ![i] = v])

Fail == [ok |-> FALSE, v |-> PyNone, next |-> 0]

IsTok(toks, i, t) == i <= Len(toks) /\ toks[i] = t

RECURSIVE ParseValue(_, _)
RECURSIVE ParseElems(_, _, _)
RECURSIVE ParseMembers(_, _, _)

\* after "[" and the elements acc: a value, then "," or "]"
ParseElems(toks, i, acc) ==
    LET e == ParseValue(toks, i)
    IN  IF ~e.ok THEN Fail
        ELSE IF IsTok(toks, e.next, P("]"))
             THEN [ok |-> TRUE, v |-> PyList(Append(acc, e.v)), next |-> e.next + 1]
        ELSE IF IsTok(toks, e.next, P(","))
             THEN ParseElems(toks, e.next + 1, Append(acc, e.v))
        ELSE Fail

\* after "{" and the members d: a string key, ":", a value, then "," or "}"
ParseMembers(toks, i, d) ==
    IF ~(i <= Len(toks) /\ toks[i].k = "str") THEN Fail
    ELSE IF ~IsTok(toks, i + 1, P(":")) THEN Fail
    ELSE LET e == ParseValue(toks, i + 2)
         IN  IF ~e.ok THEN Fail
             ELSE LET d2 == DictPut(d, toks[i].s, e.v)
                  IN  IF IsTok(toks, e.next, P("}"))
                      THEN [ok |-> TRUE, v |-> d2, next |-> e.next + 1]
                      ELSE IF IsTok(toks, e.next, P(","))
                           THEN ParseMembers(toks, e.next + 1, d2)
                           ELSE Fail

ParseValue(toks, i) ==
    IF i > Len(toks) THEN Fail
    ELSE LET t == toks[i]
         IN  CASE t.k = "str" -> [ok |-> TRUE, v |-> PyStr(t.s), next |-> i + 1]
               [] t.k = "num" -> [ok |-> TRUE, v |-> PyInt(t.n), next |-> i + 1]
               [] t.k = "lit" ->
                     [ok |-> TRUE,
                      v |-> IF t.s = "null" THEN PyNone
                            ELSE Val("bool", "", IF t.s = "true" THEN 1 ELSE 0,
                                     <<>>, <<>>),
                      next |-> i + 1]
               [] t = P("[") ->
                     IF IsTok(toks, i + 1, P("]"))
                     THEN [ok |-> TRUE, v |-> PyList(<<>>), next |-> i + 2]
                     ELSE ParseElems(toks, i + 1, <<>>)
               [] t = P("{") ->
                     IF IsTok(toks, i + 1, P("}"))
                     THEN [ok |-> TRUE, v |-> PyDict(<<>>, <<>>), next |-> i + 2]
                     ELSE ParseMembers(toks, i + 1, PyDict(<<>>, <<>>))
               [] OTHER -> Fail

\* json.load: one value, then the end of the text (else "Extra data")
Loads(toks) ==
    LET r == ParseValue(toks, 1)
    IN  IF r.ok /\ r.next = Len(toks) + 1
        THEN [ok |-> TRUE, v |-> r.v]
        ELSE [ok |-> FALSE, v |-> PyNone]

\* ------------------------------------------------------------ inputs
\* all sequences over S of length 0..n
SeqsUpTo(S, n) == UNION {[1..k -> S] : k \in 0..n}

\* the mappings callers hand to save; the last holds a value json cannot encode
Mappings ==
    { PyDict(<<"a">>, <<PyInt(1)>>),
      PyDict(<<"name", "tags">>, <<PyStr("Ann"), PyList(<<PyStr("x")>>)>>),
      PyDict(<<"a">>, <<PyObject>>) }

Args == SeqsUpTo(Mappings, MaxItems)

\* A contact object: the attributes it has (names / vals), and whether it
\* has a to_dict method and what that returns.
Contact(names, vals, has, td) ==
    [names |-> names, vals |-> vals, has_to_dict |-> has, to_dict |-> td]

Contacts ==
    { Contact(<<"name", "phone">>, <<PyStr("Ann"), PyStr("123")>>, FALSE, PyNone),
      Contact(<<"phone", "email">>, <<PyStr("123"), PyStr("a@b")>>, FALSE, PyNone),
      Contact(<<"name">>, <<PyStr("Bob")>>, TRUE,
              PyDict(<<"name">>, <<PyStr("Bob")>>)) }

ContactArgs == SeqsUpTo(Contacts, MaxItems)

\* what the file may hold before the program first runs
Absent == [present |-> FALSE, toks |-> <<>>]
Present(toks) == [present |-> TRUE, toks |-> toks]

InitialFiles ==
    { Absent,
      Present(<<>>),
      Present(<<TWord("not"), TWord("valid"), TWord("json")>>),
      Present(<<P("{"), TStr("a"), P(":"), TNum(1), P("}")>>),
      Present(<<P("["), TNum(1), P(","), TStr("x"), P(","), TLit("null"), P("]")>>),
      Present(<<TNum(5)>>),
      Present(<<TStr("x")>>),
      Present(<<TLit("null")>>),
      Present(<<P("["), P("{"), TStr("a"), P(":"), TNum(1), P("}"), P("]")>>) }

\* ------------------------------------------------------------- state
VARIABLES
    dir,         \* the storage directory exists
    inst,        \* a Repository has been constructed on the path
    adapter,     \* a ContactRepository has been constructed on the path
    file,        \* the storage file: present or not, and its lexemes
    op,          \* the last operation called
    ret,         \* what it returned: b for save / exists / clear, data for load
    raised,      \* it let an exception escape to its caller
    fault,       \* it hit a filesystem failure
    prev,        \* what the operation before it was
    created,     \* the file was there at the start, or some save returned True
    last_saved,  \* the argument of the latest successful save that was not
                 \* cleared or overwritten since
    contacts,    \* the objects of that save when it was a save_contacts
    saves        \* how many saves returned True so far (up to MaxSaves)

vars == <<dir, inst, adapter, file, op, ret, raised, fault, prev, created,
          last_saved, contacts, saves>>

NoRet == [b |-> FALSE, data |-> <<>>]
NoSave == [valid |-> FALSE, data |-> <<>>]

\* how the operation that just ran is remembered by the next one
PrevOf ==
    IF op = "save" /\ ret.b THEN "save_ok"
    ELSE IF op = "save_contacts" /\ ret.b THEN "save_contacts_ok"
    ELSE IF op = "clear" /\ ret.b THEN "clear_ok"
    ELSE "other"

Init ==
    /\ file \in InitialFiles
    /\ dir \in BOOLEAN
    /\ file.present => dir
    /\ inst = FALSE
    /\ adapter = FALSE
    /\ op = "none"
    /\ ret = NoRet
    /\ raised = FALSE
    /\ fault = FALSE
    /\ prev = "other"
    /\ created = file.present
    /\ last_saved = NoSave
    /\ contacts = <<>>
    /\ saves = 0

\* ---------------------------------------------------------- Repository
\* _ensure_storage_directory: mkdir(parents=True, exist_ok=True); fails
\* (mkdir_fails) when the directory cannot be created and is not there
ensure_storage_directory(mkdir_fails) ==
    IF dir THEN [ok |-> TRUE, dir |-> TRUE]
    ELSE IF mkdir_fails THEN [ok |-> FALSE, dir |-> FALSE]
    ELSE [ok |-> TRUE, dir |-> TRUE]

\* Repository.__init__: no try around the mkdir, its error reaches the caller
InitBody(mkdir_fails, name, is_adapter) ==
    LET e == ensure_storage_directory(mkdir_fails)
    IN  /\ dir' = e.dir
        /\ inst' = (inst \/ e.ok)
        /\ adapter' = (adapter \/ (is_adapter /\ e.ok))
        /\ raised' = ~e.ok
        /\ fault' = ~e.ok
        /\ op' = name
        /\ ret' = NoRet
        /\ prev' = PrevOf
        /\ UNCHANGED <<file, created, last_saved, contacts, saves>>

Repository_init(mkdir_fails) == InitBody(mkdir_fails, "init", FALSE)

\* where a write that fails part-way may stop: right after open() truncated
\* the file, or half-way through the chunks
WriteFaultPoints(n) == {0, n \div 2}

\* the file after open(filepath, 'w') and json.dump(data, file), where d is
\* what the encoder produces for data:
\*   io = "open"  : open() raises, nothing is touched
\*   io = "write" : the write fails after cut chunks
\*   io = "none"  : every chunk the encoder produced is written
\* (WrittenFile_append: the file opened with 'a' instead of 'w')
WrittenFile_append(d, io, cut) ==
    CASE io = "open"  -> file
      [] io = "write" -> Present(file.toks \o SubSeq(d.toks, 1, cut))
      [] OTHER        -> Present(file.toks \o d.toks)

WrittenFile(d, io, cut) ==
    CASE io = "open"  -> file
      [] io = "write" -> Present(SubSeq(d.toks, 1, cut))
      [] OTHER        -> Present(d.toks)

\* save returns True iff the with-block ran to its end
SaveResult(d, io) == io = "none" /\ d.ok

SaveBody(data, io, cut, name, objs) ==
    LET d  == Dumps(PyList(data))
        ok == SaveResult(d, io)
    IN  /\ inst
        /\ file' = WrittenFile(d, io, cut)
        /\ ret' = [b |-> ok, data |-> <<>>]
        /\ raised' = FALSE
        /\ fault' = (io # "none")
        /\ op' = name
        /\ prev' = PrevOf
        /\ created' = (created \/ ok)
        /\ saves' = IF ok /\ saves < MaxSaves THEN saves + 1 ELSE saves
        /\ last_saved' = IF ok THEN [valid |-> TRUE, data |-> data]
                         ELSE IF io = "open" THEN last_saved
                         ELSE NoSave
        /\ contacts' = IF ok THEN objs
                       ELSE IF io = "open" THEN contacts
                       ELSE <<>>
        /\ UNCHANGED <<dir, inst, adapter>>

save(data, io, cut) ==
    /\ io = "write" \/ cut = 0
    /\ SaveBody(data, io, cut, "save", <<>>)

\* LoadResult with the type test on the wrong type: isinstance(data, dict)
LoadResult_dict(toks) ==
    LET r == Loads(toks)
    IN  IF r.ok /\ r.v.t = "dict" THEN r.v.items ELSE <<>>

\* LoadResult without the type test: whatever was parsed is handed back
LoadResult_any(toks) ==
    LET r == Loads(toks)
    IN  IF ~r.ok THEN <<>>
        ELSE IF r.v.t = "list" THEN r.v.items ELSE <<r.v>>

\* what load returns for a file that is there and can be read
LoadResult(toks) ==
    LET r == Loads(toks)
    IN  IF r.ok /\ r.v.t = "list" THEN r.v.items ELSE <<>>

\* load whose missing-file test is gone and whose handlers miss FileNotFoundError
load_raises(read_fails) ==
    /\ inst
    /\ ret' = [b |-> FALSE,
               data |-> IF ~file.present THEN <<>>
                        ELSE IF read_fails THEN <<>>
                        ELSE LoadResult(file.toks)]
    /\ fault' = (file.present /\ read_fails)
    /\ raised' = ~file.present
    /\ op' = "load"
    /\ prev' = PrevOf
    /\ UNCHANGED <<dir, inst, adapter, file, created, last_saved, contacts, saves>>

load(read_fails) ==
    /\ inst
    /\ ret' = [b |-> FALSE,
               data |-> IF ~file.present THEN <<>>
                        ELSE IF read_fails THEN <<>>
                        ELSE LoadResult(file.toks)]
    /\ fault' = (file.present /\ read_fails)
    /\ raised' = FALSE
    /\ op' = "load"
    /\ prev' = PrevOf
    /\ UNCHANGED <<dir, inst, adapter, file, created, last_saved, contacts, saves>>

exists ==
    /\ inst
    /\ ret' = [b |-> file.present, data |-> <<>>]
    /\ fault' = FALSE
    /\ raised' = FALSE
    /\ op' = "exists"
    /\ prev' = PrevOf
    /\ UNCHANGED <<dir, inst, adapter, file, created, last_saved, contacts, saves>>

\* clear that returns True on both branches
clear_true(unlink_fails) ==
    /\ inst
    /\ LET deleted == file.present /\ ~unlink_fails
       IN  /\ file' = IF deleted THEN Absent ELSE file
           /\ ret' = [b |-> ~(file.present /\ unlink_fails), data |-> <<>>]
           /\ last_saved' = IF deleted THEN NoSave ELSE last_saved
           /\ contacts' = IF deleted THEN <<>> ELSE contacts
    /\ fault' = (file.present /\ unlink_fails)
    /\ raised' = FALSE
    /\ op' = "clear"
    /\ prev' = PrevOf
    /\ UNCHANGED <<dir, inst, adapter, created, saves>>

clear(unlink_fails) ==
    /\ inst
    /\ LET deleted == file.present /\ ~unlink_fails
       IN  /\ file' = IF deleted THEN Absent ELSE file
           /\ ret' = [b |-> deleted, data |-> <<>>]
           /\ last_saved' = IF deleted THEN NoSave ELSE last_saved
           /\ contacts' = IF deleted THEN <<>> ELSE contacts
    /\ fault' = (file.present /\ unlink_fails)
    /\ raised' = FALSE
    /\ op' = "clear"
    /\ prev' = PrevOf
    /\ UNCHANGED <<dir, inst, adapter, created, saves>>

\* --------------------------------------------------- ContactRepository
ContactRepository_init(mkdir_fails) == InitBody(mkdir_fails, "init", TRUE)

getattr(c, name, default) ==
    LET i == KeyIndex(c.names, name, 1)
    IN  IF i = 0 THEN default ELSE c.vals[i]

\* contact_to_dict with None as the default of every field, name included
contact_to_dict_none(c) ==
    IF c.has_to_dict THEN c.to_dict
    ELSE PyDict(<<"name", "phone", "email", "birthday", "address">>,
                <<getattr(c, "name", PyNone),
                  getattr(c, "phone", PyNone),
                  getattr(c, "email", PyNone),
                  getattr(c, "birthday", PyNone),
                  getattr(c, "address", PyNone)>>)

contact_to_dict(c) ==
    IF c.has_to_dict THEN c.to_dict
    ELSE PyDict(<<"name", "phone", "email", "birthday", "address">>,
                <<getattr(c, "name", PyStr("")),
                  getattr(c, "phone", PyNone),
                  getattr(c, "email", PyNone),
                  getattr(c, "birthday", PyNone),
                  getattr(c, "address", PyNone)>>)

ContactDicts(cs) == [i \in 1..Len(cs) |-> contact_to_dict(cs[i])]

save_contacts(cs, io, cut) ==
    /\ adapter
    /\ io = "write" \/ cut = 0
    /\ LET data == ContactDicts(cs)
       IN  SaveBody(data, io, cut, "save_contacts", cs)

\* ------------------------------------------------------- specification
SaveFaults == {"none", "open", "write"}

\* callers of the file store
Next ==
    \/ \E f \in BOOLEAN : Repository_init(f)
    \/ \E data \in Args, io \in SaveFaults :
          \E cut \in WriteFaultPoints(Len(Dumps(PyList(data)).toks)) :
             save(data, io, cut)
    \/ \E f \in BOOLEAN : load(f)
    \/ exists
    \/ \E f \in BOOLEAN : clear(f)

Spec == Init /\ [][Next]_vars

\* callers of the contact adapter, and of the file store it wraps
NextContacts ==
    \/ \E f \in BOOLEAN : ContactRepository_init(f)
    \/ \E cs \in ContactArgs, io \in SaveFaults :
          \E cut \in WriteFaultPoints(Len(Dumps(PyList(ContactDicts(cs))).toks)) :
             save_contacts(cs, io, cut)
    \/ \E f \in BOOLEAN : load(f)
    \/ exists
    \/ \E f \in BOOLEAN : clear(f)

SpecContacts == Init /\ [][NextContacts]_vars

\* ============================================================ properties

C2_SaveStep ==
    op' = "save" =>
        \/ file' = file
        \/ /\ file'.present
           /\ ret'.b
           /\ Loads(file'.toks) = [ok |-> TRUE, v |-> PyList(last_saved'.data)]

C2_SaveAtomic == [][C2_SaveStep]_vars

\* C3: no operation of the file store (construction included) lets an error
\* escape to its caller.
C3_NoErrorEscapes == ~raised

\* C4: the file is created only by a successful save.  When the file was
\* absent at the start and no save has returned True, the file is absent and
\* exists() answers False.
C4_CreatedOnlyBySuccessfulSave ==
    ~created => (~file.present /\ (op = "exists" => ~ret.b))

\* C5: a clear that hits no filesystem failure returns True exactly when the
\* file was present at the call, and the file is absent after it; a clear
\* that follows a clear that returned True returns False, the file being
\* absent after either.
C5_ClearStep ==
    op' = "clear" =>
        /\ ~fault' => ((ret'.b <=> file.present) /\ ~file'.present)
        /\ (op = "clear" /\ ret.b) => (~file.present /\ ~ret'.b /\ ~file'.present)

C5_Clear == [][C5_ClearStep]_vars

\* the second of two clears in succession on a file that was present
C5_Witness ==
    op = "clear" /\ prev = "clear_ok" /\ ~ret.b /\ ~file.present /\ ~fault

\* C6: a save replaces the stored collection.  While the latest successful
\* save has not been followed by a clear (nor by a save that failed after
\* opening the file), a load that hits no read failure returns exactly the
\* argument of that save, no matter how many saves came before it.
C6_SaveReplaces ==
    (op = "load" /\ ~fault /\ last_saved.valid) => ret.data = last_saved.data

\* a load, after at least two successful saves, that returned the one mapping
\* of the latest
C6_Witness ==
    /\ op = "load" /\ ~fault /\ last_saved.valid
    /\ saves >= 2
    /\ Len(last_saved.data) = 1
    /\ ret.data = last_saved.data

\* C7: a load on an absent file returns the empty sequence and raises
\* nothing, whether the file never existed or was removed by clear.
C7_EmptyStateDefault ==
    (op = "load" /\ ~file.present) => (ret.data = <<>> /\ ~raised)

\* a load right after a clear that removed a file some save had written
C7_Witness ==
    /\ op = "load" /\ prev = "clear_ok" /\ ~file.present
    /\ saves >= 1
    /\ ret.data = <<>> /\ ~raised

\* the content is no JSON text, or is a JSON text other than an array
NotAnArray(toks) ==
    \/ toks = <<>>
    \/ toks[1] # P("[")
    \/ ~Loads(toks).ok

\* C8: a load on a file whose content cannot be parsed, or parses to a value
\* that is not an array, returns the empty sequence, raises nothing and
\* leaves the file as it was.
C8_LoadStep ==
    op' = "load" =>
        /\ file' = file
        /\ (file.present /\ NotAnArray(file.toks))
              => (ret'.data = <<>> /\ ~raised')

C8_MalformedResilience == [][C8_LoadStep]_vars

\* loads of the text `not valid json` and of the object {"a": 1}
C8_Witness ==
    /\ op = "load" /\ ~fault /\ ~raised /\ ret.data = <<>>
    /\ file = Present(<<TWord("not"), TWord("valid"), TWord("json")>>)

\* C9: whatever the file holds, every element of what load returns is a
\* mapping.
C9_LoadReturnsMappings ==
    op = "load" => \A i \in 1..Len(ret.data) : ret.data[i].t = "dict"

\* the value of field f of contact c, or default when c has no such attribute
Field(c, f, default) ==
    IF \E i \in 1..Len(c.names) : c.names[i] = f
    THEN c.vals[CHOOSE i \in 1..Len(c.names) : c.names[i] = f]
    ELSE default

\* ds holds one mapping per contact of cs, in order; for a contact without
\* to_dict it has exactly the five keys, name defaulting to "" and the other
\* fields to null
MatchContacts(ds, cs) ==
    /\ Len(ds) = Len(cs)
    /\ \A i \in 1..Len(cs) :
          ~cs[i].has_to_dict =>
             /\ ds[i].t = "dict"
             /\ ds[i].keys = <<"name", "phone", "email", "birthday", "address">>
             /\ ds[i].items = <<Field(cs[i], "name", PyStr("")),
                                Field(cs[i], "phone", PyNone),
                                Field(cs[i], "email", PyNone),
                                Field(cs[i], "birthday", PyNone),
                                Field(cs[i], "address", PyNone)>>

\* C10: save_contacts returns what the file store's save returns (True
\* unless a filesystem failure was hit), writes one five-key mapping per
\* contact without to_dict with "" for a missing name and null for any other
\* missing field, and a load that follows returns those mappings in order.
C10_AdapterDefaults ==
    /\ op = "save_contacts" =>
          /\ ret.b <=> ~fault
          /\ ret.b => /\ file.present
                      /\ Loads(file.toks).ok
                      /\ Loads(file.toks).v.t = "list"
                      /\ MatchContacts(Loads(file.toks).v.items, contacts)
    /\ (op = "load" /\ prev = "save_contacts_ok" /\ ~fault)
          => MatchContacts(ret.data, contacts)

\* a reload of two contacts, the first with name and phone and no email, the
\* second with no name
C10_Witness ==
    /\ op = "load" /\ prev = "save_contacts_ok" /\ ~fault
    /\ Len(contacts) = 2
    /\ contacts[1].names = <<"name", "phone">>
    /\ contacts[2].names = <<"phone", "email">>
    /\ ret.data[1].items = <<PyStr("Ann"), PyStr("123"), PyNone, PyNone, PyNone>>
    /\ ret.data[2].items[1] = PyStr("")

====
